---- MODULE Spec2Model ----
(***************************************************************************)
(* A model of the reckon sampler (src/sample.go) and of the multi-instance *)
(* example that drives it (src/examples/reckoning-multiple-instances).     *)
(*                                                                         *)
(* Run is modelled as a sequential state machine: Dial, then for each loop *)
(* iteration the loop head (randomKey and the progress notification) and   *)
(* the switch arm for the reported type.  The store is an opaque           *)
(* connection whose replies are chosen nondeterministically from the       *)
(* replies a redis server can give to each command.                        *)
(***************************************************************************)
EXTENDS Integers, Sequences, FiniteSets, TLC

\* ---------------------------------------------------------------- bounds
\* Largest NumKeys of the small scenarios (all aggregators, all types).
MaxKeys == 2
\* Largest cardinality a collection command (LLEN, SCARD, ZCARD, HLEN) reports.
MaxCard == 1
\* NumKeys of the long scenario (one value type, AnyKey aggregator).
LongKeys == 250

\* ------------------------------------------------------------- constants
\* The store instances the multi-instance example samples: len(redises).
NumRuns == 3
nil == "nil"
ErrNil == "redigo: nil returned"
ErrDial == "dial tcp: connection refused"
ErrEOF == "EOF"

TypeString == "string"
TypeSortedSet == "zset"
TypeSet == "set"
TypeHash == "hash"
TypeList == "list"
TypeUnknown == "unknown"

\* The five value types that have a sampler.
ValueTypes == {TypeString, TypeList, TypeSet, TypeSortedSet, TypeHash}
\* What TYPE can answer: the five types, and "none" for a key that vanished.
TypeNames == ValueTypes \cup {"none"}

Keys == {"k1", "k2"}
Vals == {"v"}

\* ------------------------------------------------------------ aggregators
\* The Aggregator is supplied by the caller.  These are the policies the
\* model runs with; AnyKey is the built-in one.
Aggregators == {"AnyKey", "ByType", "ByKey", "None", "Dup", "Two"}

Groups(a, key, valueType) ==
    CASE a = "AnyKey" -> <<"any-key">>
      [] a = "ByType" -> <<valueType>>
      [] a = "ByKey"  -> <<key>>
      [] a = "None"   -> << >>
      [] a = "Dup"    -> <<"x", "x">>
      [] a = "Two"    -> <<"x", "y">>

\* --------------------------------------------------------------- Results
\* The kinds of sampled member whose size is recorded.
ElemKinds == {"list", "set", "zset", "hfield", "hvalue"}

Stat0 == [n |-> 0, sum |-> 0]
AddSample(s, x) == [n |-> s.n + 1, sum |-> s.sum + x]

NewResults ==
    [Name  |-> "",
     cnt   |-> [t \in ValueTypes |-> 0],
     len   |-> [t \in ValueTypes |-> Stat0],
     elem  |-> [e \in ElemKinds |-> Stat0]]

observeString(r, key, val) ==
    [r EXCEPT !.cnt[TypeString] = @ + 1,
              !.len[TypeString] = AddSample(@, Len(val))]

observeList(r, key, length, member) ==
    [r EXCEPT !.cnt[TypeList] = @ + 1,
              !.len[TypeList] = AddSample(@, length),
              !.elem["list"] = AddSample(@, Len(member))]

observeSet(r, key, length, member) ==
    [r EXCEPT !.cnt[TypeSet] = @ + 1,
              !.len[TypeSet] = AddSample(@, length),
              !.elem["set"] = AddSample(@, Len(member))]

observeSortedSet(r, key, length, member) ==
    [r EXCEPT !.cnt[TypeSortedSet] = @ + 1,
              !.len[TypeSortedSet] = AddSample(@, length),
              !.elem["zset"] = AddSample(@, Len(member))]

observeHash(r, key, length, field, val) ==
    [r EXCEPT !.cnt[TypeHash] = @ + 1,
              !.len[TypeHash] = AddSample(@, length),
              !.elem["hfield"] = AddSample(@, Len(field)),
              !.elem["hvalue"] = AddSample(@, Len(val))]

MergeStat(a, b) == [n |-> a.n + b.n, sum |-> a.sum + b.sum]

Merge(r, other) ==
    [Name |-> r.Name,
     cnt  |-> [t \in ValueTypes |-> r.cnt[t] + other.cnt[t]],
     len  |-> [t \in ValueTypes |-> MergeStat(r.len[t], other.len[t])],
     elem |-> [e \in ElemKinds |-> MergeStat(r.elem[e], other.elem[e])]]

\* ------------------------------------------------------ the store's replies
\* A reply is an error reply, a nil bulk, an integer, a bulk string or an
\* array of bulk strings.
ErrReply(cmd) == [k |-> "err", v |-> "ERR " \o cmd]
NilReply      == [k |-> "nil", v |-> ""]
IntReply(n)   == [k |-> "int", v |-> n]
BulkReply(s)  == [k |-> "bulk", v |-> s]
ArrReply(a)   == [k |-> "arr", v |-> a]

\* What each command can answer, given the values the store holds.
KeyReplies(st, cmd)  == {ErrReply(cmd), NilReply} \cup {BulkReply(s) : s \in st.keys}
TypeReplies(st, cmd) == {ErrReply(cmd)} \cup {BulkReply(t) : t \in st.types}
BulkReplies(st, cmd) == {ErrReply(cmd), NilReply} \cup {BulkReply(s) : s \in st.vals}
CardReplies(st, cmd) == {ErrReply(cmd)} \cup {IntReply(n) : n \in st.cards}
HeadReplies(st, cmd) == {ErrReply(cmd)} \cup {ArrReply(a) : a \in {x \in st.arrs : Len(x) <= 1}}
ArrReplies(st, cmd)  == {ErrReply(cmd)} \cup {ArrReply(a) : a \in st.arrs}

\* ------------------------------------------------- the client's conversions
\* conn.Do: an error reply comes back as the call's error.
Do(r) == [reply |-> r, err |-> IF r.k = "err" THEN r.v ELSE nil]

ErrType(r) == "redigo: unexpected type " \o r.k

redisInt(reply, e) ==
    IF e # nil THEN [v |-> 0, err |-> e]
    ELSE CASE reply.k = "int" -> [v |-> reply.v, err |-> nil]
           [] reply.k = "nil" -> [v |-> 0, err |-> ErrNil]
           [] reply.k = "err" -> [v |-> 0, err |-> reply.v]
           [] OTHER           -> [v |-> 0, err |-> ErrType(reply)]

redisString(reply, e) ==
    IF e # nil THEN [v |-> "", err |-> e]
    ELSE CASE reply.k = "bulk" -> [v |-> reply.v, err |-> nil]
           [] reply.k = "nil"  -> [v |-> "", err |-> ErrNil]
           [] reply.k = "err"  -> [v |-> "", err |-> reply.v]
           [] OTHER            -> [v |-> "", err |-> ErrType(reply)]

redisStrings(reply, e) ==
    IF e # nil THEN [v |-> << >>, err |-> e]
    ELSE CASE reply.k = "arr" -> [v |-> reply.v, err |-> nil]
           [] reply.k = "nil" -> [v |-> << >>, err |-> ErrNil]
           [] reply.k = "err" -> [v |-> << >>, err |-> reply.v]
           [] OTHER           -> [v |-> << >>, err |-> ErrType(reply)]

\* flush: conn.Do("") hands back one reply per command sent, error replies
\* included as elements, or fails as a whole when the connection breaks.
flush(io, replies) ==
    IF io # nil THEN [replies |-> << >>, err |-> io]
    ELSE [replies |-> replies, err |-> nil]

\* The error of the first failed command of a round trip, nil if none failed.
RECURSIVE FirstErr(_)
FirstErr(replies) ==
    IF replies = << >> THEN nil
    ELSE IF Head(replies).k = "err" THEN Head(replies).v
    ELSE FirstErr(Tail(replies))

TripErr(io, replies) == IF io # nil THEN io ELSE FirstErr(replies)

\* ------------------------------------------------------------ ensureEntry
\* An ensureEntry that starts a new map when the group has no entry.
ensureEntry_fresh(m, group) ==
    IF group \in DOMAIN m THEN m ELSE (group :> NewResults)

\* The map with an entry for `group`, a new Results if it had none.
ensureEntry(m, group) ==
    IF group \in DOMAIN m THEN m ELSE m @@ (group :> NewResults)

\* ---------------------------------------------------------------- randomKey
\* key, value type and error, with the commands issued and the error of each.
randomKey(rk, ty) ==
    LET k == redisString(Do(rk).reply, Do(rk).err)
        t == redisString(Do(ty).reply, Do(ty).err)
    IN  IF k.err # nil
        THEN [key |-> k.v, vt |-> TypeUnknown, err |-> k.err,
              trips |-> << <<"RANDOMKEY">> >>, errs |-> <<Do(rk).err>>]
        ELSE IF t.err # nil
        THEN [key |-> k.v, vt |-> TypeUnknown, err |-> t.err,
              trips |-> << <<"RANDOMKEY">>, <<"TYPE">> >>,
              errs |-> <<nil, Do(ty).err>>]
        ELSE [key |-> k.v, vt |-> t.v, err |-> nil,
              trips |-> << <<"RANDOMKEY">>, <<"TYPE">> >>,
              errs |-> <<nil, nil>>]

\* ----------------------------------------------------------------- samplers
\* A sampler's outcome: the map, the error returned, whether it panicked,
\* the round trips it made (commands, and the error of the first failed
\* command of each), whether Groups was invoked and the observations made.
\* For a hash: the field names HKEYS answered, the field each HGET asked
\* for, the reply to each HGET, and the field and value of each observation.
Outcome(m, e, tr, er) ==
    [stats |-> m, err |-> e, panic |-> FALSE, trips |-> tr, errs |-> er,
     invoked |-> FALSE, calls |-> << >>,
     hkeys |-> << >>, asked |-> << >>, got |-> << >>, obs |-> << >>]

RECURSIVE stringLoop(_, _, _, _)
stringLoop(gs, key, val, o) ==
    IF gs = << >> THEN o
    ELSE LET m == ensureEntry(o.stats, Head(gs))
         IN  stringLoop(Tail(gs), key, val,
                [o EXCEPT !.stats = [m EXCEPT ![Head(gs)] = observeString(@, key, val)],
                          !.calls = Append(@, <<Head(gs), TypeString>>)])

sampleString(key, get, a, m) ==
    LET val == redisString(Do(get).reply, Do(get).err)
        o   == Outcome(m, val.err, << <<"GET">> >>, <<Do(get).err>>)
    IN  IF val.err # nil THEN o
        ELSE stringLoop(Groups(a, key, TypeString), key, val.v,
                        [o EXCEPT !.invoked = TRUE])

\* ms[0] of an empty reply is an index out of range: the loop panics after
\* ensureEntry has made the group's entry.
RECURSIVE listLoop(_, _, _, _, _)
listLoop(gs, key, l, ms, o) ==
    IF gs = << >> THEN o
    ELSE LET m == ensureEntry(o.stats, Head(gs))
         IN  IF ms = << >>
             THEN [o EXCEPT !.stats = m, !.panic = TRUE]
             ELSE listLoop(Tail(gs), key, l, ms,
                    [o EXCEPT !.stats = [m EXCEPT ![Head(gs)] = observeList(@, key, l, ms[1])],
                              !.calls = Append(@, <<Head(gs), TypeList>>)])

sampleList(key, io, r1, r2, a, m) ==
    LET f  == flush(io, <<r1, r2>>)
        o  == Outcome(m, f.err, << <<"LLEN", "LRANGE">> >>, <<TripErr(io, <<r1, r2>>)>>)
    IN  IF f.err # nil THEN o
        ELSE IF Len(f.replies) >= 2
        THEN LET l  == redisInt(f.replies[1], nil)
                 ms == redisStrings(f.replies[2], l.err)
             IN  IF ms.err # nil THEN [o EXCEPT !.err = ms.err]
                 ELSE listLoop(Groups(a, key, TypeList), key, l.v, ms.v,
                               [o EXCEPT !.invoked = TRUE])
        ELSE o

\* A loop over the groups that records nothing.
setLoop_skip(gs, key, l, mem, o) == o

RECURSIVE setLoop(_, _, _, _, _)
setLoop(gs, key, l, mem, o) ==
    IF gs = << >> THEN o
    ELSE LET m == ensureEntry(o.stats, Head(gs))
         IN  setLoop(Tail(gs), key, l, mem,
                [o EXCEPT !.stats = [m EXCEPT ![Head(gs)] = observeSet(@, key, l, mem)],
                          !.calls = Append(@, <<Head(gs), TypeSet>>)])

sampleSet(key, io, r1, r2, a, m) ==
    LET f  == flush(io, <<r1, r2>>)
        o  == Outcome(m, f.err, << <<"SCARD", "SRANDMEMBER">> >>, <<TripErr(io, <<r1, r2>>)>>)
    IN  IF f.err # nil THEN o
        ELSE IF Len(f.replies) >= 2
        THEN LET l   == redisInt(f.replies[1], nil)
                 mem == redisString(f.replies[2], l.err)
             IN  IF mem.err # nil THEN [o EXCEPT !.err = mem.err]
                 ELSE setLoop(Groups(a, key, TypeSet), key, l.v, mem.v,
                              [o EXCEPT !.invoked = TRUE])
        ELSE o

\* A sorted-set loop that records its keys as sets.
RECURSIVE sortedSetLoop_asSet(_, _, _, _, _)
sortedSetLoop_asSet(gs, key, l, ms, o) ==
    IF gs = << >> THEN o
    ELSE LET m == ensureEntry(o.stats, Head(gs))
         IN  IF ms = << >>
             THEN [o EXCEPT !.stats = m, !.panic = TRUE]
             ELSE sortedSetLoop_asSet(Tail(gs), key, l, ms,
                    [o EXCEPT !.stats = [m EXCEPT ![Head(gs)] = observeSet(@, key, l, ms[1])],
                              !.calls = Append(@, <<Head(gs), TypeSet>>)])

RECURSIVE sortedSetLoop(_, _, _, _, _)
sortedSetLoop(gs, key, l, ms, o) ==
    IF gs = << >> THEN o
    ELSE LET m == ensureEntry(o.stats, Head(gs))
         IN  IF ms = << >>
             THEN [o EXCEPT !.stats = m, !.panic = TRUE]
             ELSE sortedSetLoop(Tail(gs), key, l, ms,
                    [o EXCEPT !.stats = [m EXCEPT ![Head(gs)] = observeSortedSet(@, key, l, ms[1])],
                              !.calls = Append(@, <<Head(gs), TypeSortedSet>>)])

sampleSortedSet(key, io, r1, r2, a, m) ==
    LET f  == flush(io, <<r1, r2>>)
        o  == Outcome(m, f.err, << <<"ZCARD", "ZRANGE">> >>, <<TripErr(io, <<r1, r2>>)>>)
    IN  IF f.err # nil THEN o
        ELSE IF Len(f.replies) >= 2
        THEN LET l  == redisInt(f.replies[1], nil)
                 ms == redisStrings(f.replies[2], l.err)
             IN  IF ms.err # nil THEN [o EXCEPT !.err = ms.err]
                 ELSE sortedSetLoop(Groups(a, key, TypeSortedSet), key, l.v, ms.v,
                                    [o EXCEPT !.invoked = TRUE])
        ELSE o

\* A hash loop that takes the last field of the HKEYS reply.
RECURSIVE hashLoop_last(_, _, _, _, _, _)
hashLoop_last(gs, n, key, replies, hget, o) ==
    IF n > Len(gs) THEN o
    ELSE LET l      == redisInt(replies[1], nil)
             fields == redisStrings(replies[2], l.err)
         IN  IF fields.err # nil THEN [o EXCEPT !.err = fields.err]
             ELSE IF fields.v = << >> THEN [o EXCEPT !.panic = TRUE]
             ELSE LET d   == Do(hget[n])
                      val == redisString(d.reply, d.err)
                      f   == fields.v[Len(fields.v)]
                      o1  == [o EXCEPT !.trips = Append(@, <<"HGET">>),
                                       !.errs = Append(@, d.err),
                                       !.hkeys = fields.v,
                                       !.asked = Append(@, f),
                                       !.got = Append(@, hget[n])]
                      m   == ensureEntry(o.stats, gs[n])
                  IN  IF val.err # nil THEN [o1 EXCEPT !.err = val.err]
                      ELSE hashLoop_last(gs, n + 1, key, replies, hget,
                             [o1 EXCEPT !.stats = [m EXCEPT ![gs[n]] =
                                           observeHash(@, key, l.v, f, val.v)],
                                        !.calls = Append(@, <<gs[n], TypeHash>>),
                                        !.obs = Append(@, [field |-> f, val |-> val.v])])

\* The replies are converted, and HGET is issued, inside the loop over the
\* groups: once per group.  hget[n] is the reply to the n-th HGET.
RECURSIVE hashLoop(_, _, _, _, _, _)
hashLoop(gs, n, key, replies, hget, o) ==
    IF n > Len(gs) THEN o
    ELSE LET l      == redisInt(replies[1], nil)
             fields == redisStrings(replies[2], l.err)
         IN  IF fields.err # nil THEN [o EXCEPT !.err = fields.err]
             ELSE IF fields.v = << >> THEN [o EXCEPT !.panic = TRUE]
             ELSE LET d   == Do(hget[n])
                      val == redisString(d.reply, d.err)
                      o1  == [o EXCEPT !.trips = Append(@, <<"HGET">>),
                                       !.errs = Append(@, d.err),
                                       !.hkeys = fields.v,
                                       !.asked = Append(@, fields.v[1]),
                                       !.got = Append(@, hget[n])]
                      m   == ensureEntry(o.stats, gs[n])
                  IN  IF val.err # nil THEN [o1 EXCEPT !.err = val.err]
                      ELSE hashLoop(gs, n + 1, key, replies, hget,
                             [o1 EXCEPT !.stats = [m EXCEPT ![gs[n]] =
                                           observeHash(@, key, l.v, fields.v[1], val.v)],
                                        !.calls = Append(@, <<gs[n], TypeHash>>),
                                        !.obs = Append(@, [field |-> fields.v[1],
                                                           val |-> val.v])])

sampleHash(key, io, r1, r2, hget, a, m) ==
    LET f  == flush(io, <<r1, r2>>)
        o  == Outcome(m, f.err, << <<"HLEN", "HKEYS">> >>, <<TripErr(io, <<r1, r2>>)>>)
    IN  IF f.err # nil THEN o
        ELSE IF Len(f.replies) >= 2
        THEN hashLoop(Groups(a, key, TypeHash), 1, key, f.replies, hget,
                      [o EXCEPT !.invoked = TRUE])
        ELSE o

\* =========================================================================
\* Run
\* =========================================================================
VARIABLES
    pc,            \* where Run is: "dial", "loop", "switch", "returned", "panic"
    numKeys,       \* opts.NumKeys
    agg,           \* the Aggregator passed to Run
    store,         \* what the store holds: the replies it can give
    conn,          \* "none", "open" or "closed"
    stats,         \* the map Run builds and returns
    err,           \* the error Run returns
    i, interval, lastInterval,
    key, vt,       \* the key and value type of the current iteration
    progress,      \* the loop indices at which a progress line was printed
    ntrips,        \* round trips to the store made so far
    nrandom,       \* RANDOMKEY requests made so far
    failTrip,      \* the round trip in which a command first failed, 0 if none
    failErr,       \* the error of that command
    trips,         \* the round trips made for the current key
    last,          \* the sampler call of the current iteration
    \* ---- the multi-instance example (main.go)
    rpc,           \* each sampling goroutine: "run", "send", "sent", "exit"
    res,           \* the reckonResult each sampling goroutine built
    wg,            \* the WaitGroup's counter
    closed,        \* whether the results channel is closed
    cpc,           \* the collector goroutine: "recv", "check", "merge", "exit"
    cur, curRun,   \* the reckonResult the collector holds, and whose it is
    todo,          \* the keys of cur.s the collector's inner loop has yet to visit
    totals, totalKeyCount,
    merged,        \* the runs whose map the collector has merged completely
    mpc,           \* the main goroutine: "wait", "close", "log", "render"
                   \* (the range over totals), "create", "html", "exit"
    logged,        \* the total key count main logged, -1 before it did
    rendered,      \* bucket -> the Results that RenderHTML read
    rkey,          \* the k of the render loop's current iteration, "" outside one
    crashed        \* a panic ended the process

runVars == <<pc, numKeys, agg, store, conn, stats, err, i, interval, lastInterval,
             key, vt, progress, ntrips, nrandom, failTrip, failErr, trips, last>>

mainVars == <<rpc, res, wg, closed, cpc, cur, curRun, todo, totals, totalKeyCount,
              merged, mpc, logged, rendered, rkey, crashed>>

\* Go's integer division truncates toward zero.
GoDiv(a, b) ==
    IF (a >= 0) = (b > 0) THEN (IF a >= 0 THEN a \div b ELSE (-a) \div (-b))
    ELSE -((IF a >= 0 THEN a ELSE -a) \div (IF b > 0 THEN b ELSE -b))

\* The interval as max(NumKeys/100, 100).
Interval_max(n) == IF GoDiv(n, 100) > 100 THEN GoDiv(n, 100) ELSE 100

\* interval := opts.NumKeys / 100; if interval == 0 { interval = 100 }
Interval(n) == IF GoDiv(n, 100) = 0 THEN 100 ELSE GoDiv(n, 100)

NoCall == [vt |-> "none", groups |-> << >>, invoked |-> FALSE, calls |-> << >>,
           out |-> "none", empty |-> FALSE,
           hkeys |-> << >>, asked |-> << >>, got |-> << >>, obs |-> << >>]

SmallStore ==
    [types |-> TypeNames, keys |-> Keys, vals |-> Vals, cards |-> 0..MaxCard,
     arrs |-> {<< >>, <<"a">>, <<"bb", "a">>}]

LongStore(t) ==
    [types |-> {t}, keys |-> {"k1"}, vals |-> {"v"}, cards |-> {1},
     arrs |-> {<<"a">>}]

RunStart ==
    /\ pc = "dial"
    /\ conn = "none"
    /\ stats = << >>
    /\ err = nil
    /\ i = 0 /\ interval = 0 /\ lastInterval = 0
    /\ key = "" /\ vt = TypeUnknown
    /\ progress = {}
    /\ ntrips = 0 /\ nrandom = 0 /\ failTrip = 0 /\ failErr = nil
    /\ trips = << >>
    /\ last = NoCall

\* The runs the model explores: short runs with every aggregator over a store
\* of every type, and one long run per type of store under AnyKey.
RunInit ==
    /\ RunStart
    /\ \/ /\ numKeys \in -1..MaxKeys
          /\ agg \in Aggregators
          /\ store = SmallStore
       \/ /\ numKeys \in {LongKeys, -LongKeys}
          /\ agg = "AnyKey"
          /\ store \in {LongStore(t) : t \in TypeNames}

\* The index, among the round trips `er` adds, of the first with a failed command.
FirstFailed(er) ==
    IF \E j \in 1..Len(er) : er[j] # nil
    THEN CHOOSE j \in 1..Len(er) : er[j] # nil /\ \A h \in 1..(j - 1) : er[h] = nil
    ELSE 0

\* The bookkeeping of round trips, for the trips `tr` with errors `er`.
Record(tr, er) ==
    /\ ntrips' = ntrips + Len(tr)
    /\ trips' = trips \o tr
    /\ IF failTrip = 0 /\ FirstFailed(er) # 0
       THEN failTrip' = ntrips + FirstFailed(er) /\ failErr' = er[FirstFailed(er)]
       ELSE UNCHANGED <<failTrip, failErr>>

\* A Dial whose error is not checked: Run goes on without a connection.
Dial_unchecked ==
    /\ pc = "dial"
    /\ \E ok \in BOOLEAN :
         /\ conn' = IF ok THEN "open" ELSE "none"
         /\ err' = IF ok THEN err ELSE ErrDial
         /\ interval' = Interval(numKeys)
         /\ lastInterval' = 0
         /\ i' = 0
         /\ pc' = "loop"
    /\ UNCHANGED <<numKeys, agg, store, stats, key, vt, progress, ntrips, nrandom,
                   failTrip, failErr, trips, last>>
    /\ UNCHANGED mainVars

\* stats := make(...); conn, err := redis.Dial(...); interval; lastInterval
Dial ==
    /\ pc = "dial"
    /\ \E ok \in BOOLEAN :
         IF ok
         THEN /\ conn' = "open"
              /\ interval' = Interval(numKeys)
              /\ lastInterval' = 0
              /\ i' = 0
              /\ pc' = "loop"
              /\ err' = err
         ELSE /\ err' = ErrDial
              /\ pc' = "returned"
              /\ UNCHANGED <<conn, interval, lastInterval, i>>
    /\ UNCHANGED <<numKeys, agg, store, stats, key, vt, progress, ntrips, nrandom,
                   failTrip, failErr, trips, last>>
    /\ UNCHANGED mainVars

\* A loop head whose condition is i <= NumKeys.
LoopHead_inclusive ==
    /\ pc = "loop"
    /\ i <= numKeys
    /\ \E rk \in KeyReplies(store, "RANDOMKEY"), ty \in TypeReplies(store, "TYPE") :
         LET r == randomKey(rk, ty)
         IN  /\ ntrips' = ntrips + Len(r.trips)
             /\ nrandom' = nrandom + 1
             /\ trips' = r.trips
             /\ IF failTrip = 0 /\ FirstFailed(r.errs) # 0
                THEN /\ failTrip' = ntrips + FirstFailed(r.errs)
                     /\ failErr' = r.errs[FirstFailed(r.errs)]
                ELSE UNCHANGED <<failTrip, failErr>>
             /\ key' = r.key
             /\ vt' = r.vt
             /\ IF r.err # nil
                THEN /\ err' = r.err
                     /\ pc' = "returned"
                     /\ UNCHANGED <<progress, lastInterval>>
                ELSE /\ err' = err
                     /\ pc' = "switch"
                     /\ IF GoDiv(i, interval) # lastInterval
                        THEN /\ progress' = progress \cup {i}
                             /\ lastInterval' = GoDiv(i, interval)
                        ELSE UNCHANGED <<progress, lastInterval>>
    /\ last' = NoCall
    /\ UNCHANGED <<numKeys, agg, store, conn, stats, i, interval>>
    /\ UNCHANGED mainVars

\* The loop head: randomKey, its error check, and the progress line.
LoopHead ==
    /\ pc = "loop"
    /\ i < numKeys
    /\ \E rk \in KeyReplies(store, "RANDOMKEY"), ty \in TypeReplies(store, "TYPE") :
         LET r == randomKey(rk, ty)
         IN  /\ ntrips' = ntrips + Len(r.trips)
             /\ nrandom' = nrandom + 1
             /\ trips' = r.trips
             /\ IF failTrip = 0 /\ FirstFailed(r.errs) # 0
                THEN /\ failTrip' = ntrips + FirstFailed(r.errs)
                     /\ failErr' = r.errs[FirstFailed(r.errs)]
                ELSE UNCHANGED <<failTrip, failErr>>
             /\ key' = r.key
             /\ vt' = r.vt
             /\ IF r.err # nil
                THEN /\ err' = r.err
                     /\ pc' = "returned"
                     /\ UNCHANGED <<progress, lastInterval>>
                ELSE /\ err' = err
                     /\ pc' = "switch"
                     /\ IF GoDiv(i, interval) # lastInterval
                        THEN /\ progress' = progress \cup {i}
                             /\ lastInterval' = GoDiv(i, interval)
                        ELSE UNCHANGED <<progress, lastInterval>>
    /\ last' = NoCall
    /\ UNCHANGED <<numKeys, agg, store, conn, stats, i, interval>>
    /\ UNCHANGED mainVars

\* An error check that loops on without stepping i.
After_stuck(o, t, empty) ==
    /\ stats' = o.stats
    /\ Record(o.trips, o.errs)
    /\ last' = [vt |-> t, groups |-> IF o.invoked THEN Groups(agg, key, t) ELSE << >>,
                invoked |-> o.invoked, calls |-> o.calls,
                out |-> IF o.panic THEN "panic" ELSE IF o.err # nil THEN "err" ELSE "ok",
                empty |-> empty,
                hkeys |-> o.hkeys, asked |-> o.asked, got |-> o.got, obs |-> o.obs]
    /\ IF o.panic
       THEN pc' = "panic" /\ UNCHANGED <<err, i>>
       ELSE IF o.err # nil
       THEN pc' = "returned" /\ err' = o.err /\ i' = i
       ELSE pc' = "loop" /\ i' = i /\ err' = err
    /\ UNCHANGED <<numKeys, agg, store, conn, interval, lastInterval, key, vt, progress,
                   nrandom>>
    /\ UNCHANGED mainVars

\* What Run does with a sampler's outcome: return its error, or loop on.
After(o, t, empty) ==
    /\ stats' = o.stats
    /\ Record(o.trips, o.errs)
    /\ last' = [vt |-> t, groups |-> IF o.invoked THEN Groups(agg, key, t) ELSE << >>,
                invoked |-> o.invoked, calls |-> o.calls,
                out |-> IF o.panic THEN "panic" ELSE IF o.err # nil THEN "err" ELSE "ok",
                empty |-> empty,
                hkeys |-> o.hkeys, asked |-> o.asked, got |-> o.got, obs |-> o.obs]
    /\ IF o.panic
       THEN pc' = "panic" /\ UNCHANGED <<err, i>>
       ELSE IF o.err # nil
       THEN pc' = "returned" /\ err' = o.err /\ i' = i
       ELSE pc' = "loop" /\ i' = i + 1 /\ err' = err
    /\ UNCHANGED <<numKeys, agg, store, conn, interval, lastInterval, key, vt, progress,
                   nrandom>>
    /\ UNCHANGED mainVars

IOs == {nil, ErrEOF}

CaseString ==
    /\ pc = "switch" /\ vt = TypeString
    /\ \E get \in BulkReplies(store, "GET") :
         After(sampleString(key, get, agg, stats), TypeString, FALSE)

CaseList ==
    /\ pc = "switch" /\ vt = TypeList
    /\ \E io \in IOs, r1 \in CardReplies(store, "LLEN"), r2 \in HeadReplies(store, "LRANGE") :
         After(sampleList(key, io, r1, r2, agg, stats), TypeList,
               io = nil /\ r1 = IntReply(0) /\ r2 = ArrReply(<< >>))

CaseSet ==
    /\ pc = "switch" /\ vt = TypeSet
    /\ \E io \in IOs, r1 \in CardReplies(store, "SCARD"),
          r2 \in BulkReplies(store, "SRANDMEMBER") :
         After(sampleSet(key, io, r1, r2, agg, stats), TypeSet,
               io = nil /\ r1 = IntReply(0) /\ r2 = NilReply)

CaseSortedSet ==
    /\ pc = "switch" /\ vt = TypeSortedSet
    /\ \E io \in IOs, r1 \in CardReplies(store, "ZCARD"), r2 \in HeadReplies(store, "ZRANGE") :
         After(sampleSortedSet(key, io, r1, r2, agg, stats), TypeSortedSet,
               io = nil /\ r1 = IntReply(0) /\ r2 = ArrReply(<< >>))

CaseHash ==
    /\ pc = "switch" /\ vt = TypeHash
    /\ \E io \in IOs, r1 \in CardReplies(store, "HLEN"), r2 \in ArrReplies(store, "HKEYS"),
          hget \in [1..Len(Groups(agg, key, TypeHash)) -> BulkReplies(store, "HGET")] :
         After(sampleHash(key, io, r1, r2, hget, agg, stats), TypeHash,
               io = nil /\ r1 = IntReply(0) /\ r2 = ArrReply(<< >>))

\* A default arm that skips the key and samples on.
CaseDefault_skip ==
    /\ pc = "switch" /\ vt \notin ValueTypes
    /\ pc' = "loop"
    /\ i' = i + 1
    /\ UNCHANGED <<numKeys, agg, store, conn, stats, err, interval, lastInterval,
                   key, vt, progress, ntrips, nrandom, failTrip, failErr, trips, last>>
    /\ UNCHANGED mainVars

\* default: return stats, fmt.Errorf("unknown type for redis key: %s", key)
CaseDefault ==
    /\ pc = "switch" /\ vt \notin ValueTypes
    /\ err' = "unknown type for redis key: " \o key
    /\ pc' = "returned"
    /\ UNCHANGED <<numKeys, agg, store, conn, stats, i, interval, lastInterval,
                   key, vt, progress, ntrips, nrandom, failTrip, failErr, trips, last>>
    /\ UNCHANGED mainVars

\* The loop condition fails: return stats, nil
Return ==
    /\ pc = "loop"
    /\ ~(i < numKeys)
    /\ pc' = "returned"
    /\ err' = nil
    /\ UNCHANGED <<numKeys, agg, store, conn, stats, i, interval, lastInterval,
                   key, vt, progress, ntrips, nrandom, failTrip, failErr, trips, last>>
    /\ UNCHANGED mainVars

RunNext ==
    \/ Dial
    \/ LoopHead
    \/ CaseString
    \/ CaseList
    \/ CaseSet
    \/ CaseSortedSet
    \/ CaseHash
    \/ CaseDefault
    \/ Return

vars == <<runVars, mainVars>>

\* =========================================================================
\* The multi-instance example: one goroutine per store instance runs Run and
\* sends its result on an unbuffered channel; a collector goroutine receives
\* and merges; main waits for the WaitGroup, closes the channel and renders.
\* =========================================================================
Runs == 1..NumRuns

\* What a Run call can hand back under AnyKey: a map with the one bucket and
\* a nil error, or an error with the map built until then.
Sampled1 == stringLoop(<<"any-key">>, "k1", "v", Outcome(<< >>, nil, << >>, << >>)).stats
Sampled2 == listLoop(<<"any-key">>, "k2", 1, <<"a">>, Outcome(Sampled1, nil, << >>, << >>)).stats

RunOutcome(m, e) ==
    [s |-> m, keyCount |-> IF DOMAIN m = {} THEN 0 ELSE m["any-key"].cnt[TypeString] +
                                                       m["any-key"].cnt[TypeList],
     err |-> e]

RunOutcomes ==
    {RunOutcome(Sampled1, nil), RunOutcome(Sampled2, nil),
     RunOutcome(<< >>, ErrDial), RunOutcome(Sampled1, ErrEOF)}

NoResult == RunOutcome(<< >>, nil)

MainStart ==
    /\ rpc = [r \in Runs |-> "run"]
    /\ res = [r \in Runs |-> NoResult]
    /\ wg = NumRuns
    /\ closed = FALSE
    /\ cpc = "recv"
    /\ cur = NoResult /\ curRun = 0
    /\ todo = {}
    /\ totals = << >> /\ totalKeyCount = 0
    /\ merged = {}
    /\ mpc = "wait"
    /\ logged = -1
    /\ rendered = << >>
    /\ rkey = ""
    /\ crashed = FALSE

\* The process is running: no panic, and main has not returned.
Alive == ~crashed /\ mpc # "exit"

\* s, keyCount, err := reckon.Run(opts, aggregator): Run returns, or it
\* panics (an index out of range in a sampler) and the goroutine unwinds.
RunCall(r) ==
    /\ Alive /\ rpc[r] = "run"
    /\ \/ /\ \E o \in RunOutcomes : res' = [res EXCEPT ![r] = o]
          /\ rpc' = [rpc EXCEPT ![r] = "send"]
       \/ /\ res' = res
          /\ rpc' = [rpc EXCEPT ![r] = "panicking"]
    /\ UNCHANGED <<wg, closed, cpc, cur, curRun, todo, totals, totalKeyCount,
                   merged, mpc, logged, rendered, rkey, crashed>>
    /\ UNCHANGED runVars

\* results <- reckonResult{...} meets the collector's receive (for r := range results)
Receive(r) ==
    /\ Alive /\ rpc[r] = "send" /\ cpc = "recv" /\ ~closed
    /\ cur' = res[r] /\ curRun' = r
    /\ cpc' = "check"
    /\ rpc' = [rpc EXCEPT ![r] = "sent"]
    /\ UNCHANGED <<res, wg, closed, todo, totals, totalKeyCount,
                   merged, mpc, logged, rendered, rkey, crashed>>
    /\ UNCHANGED runVars

\* A sampling goroutine that ends without wg.Done().
Done_missing(r) ==
    /\ Alive /\ rpc[r] \in {"sent", "panicking"}
    /\ rpc' = [rpc EXCEPT ![r] = IF rpc[r] = "sent" THEN "exit" ELSE "dying"]
    /\ UNCHANGED <<res, wg, closed, cpc, cur, curRun, todo, totals, totalKeyCount,
                   merged, mpc, logged, rendered, rkey, crashed>>
    /\ UNCHANGED runVars

\* defer wg.Done(): runs when the goroutine's function returns after the
\* send, and also while a panic of Run unwinds the goroutine.
Done(r) ==
    /\ Alive /\ rpc[r] \in {"sent", "panicking"}
    /\ wg' = wg - 1
    /\ rpc' = [rpc EXCEPT ![r] = IF rpc[r] = "sent" THEN "exit" ELSE "dying"]
    /\ UNCHANGED <<res, closed, cpc, cur, curRun, todo, totals, totalKeyCount,
                   merged, mpc, logged, rendered, rkey, crashed>>
    /\ UNCHANGED runVars

\* The panic of Run, not recovered by the goroutine, ends the process.
Fatal(r) ==
    /\ Alive /\ rpc[r] = "dying"
    /\ crashed' = TRUE
    /\ UNCHANGED <<rpc, res, wg, closed, cpc, cur, curRun, todo, totals, totalKeyCount,
                   merged, mpc, logged, rendered, rkey>>
    /\ UNCHANGED runVars

\* if r.err != nil { panic(r.err) }; totalKeyCount += r.keyCount
Check ==
    /\ Alive /\ cpc = "check"
    /\ IF cur.err # nil
       THEN /\ crashed' = TRUE
            /\ UNCHANGED <<cpc, todo, totalKeyCount>>
       ELSE /\ totalKeyCount' = totalKeyCount + cur.keyCount
            /\ todo' = DOMAIN cur.s
            /\ cpc' = "merge"
            /\ crashed' = crashed
    /\ UNCHANGED <<rpc, res, wg, closed, cur, curRun, totals, merged, mpc, logged, rendered, rkey>>
    /\ UNCHANGED runVars

\* An inner loop that always adopts v, dropping what totals[k] held.
MergeKey_overwrite ==
    /\ Alive /\ cpc = "merge" /\ todo # {}
    /\ \E k \in todo :
         /\ totals' = (k :> cur.s[k]) @@ totals
         /\ todo' = todo \ {k}
    /\ UNCHANGED <<rpc, res, wg, closed, cpc, cur, curRun, totalKeyCount,
                   merged, mpc, logged, rendered, rkey, crashed>>
    /\ UNCHANGED runVars

\* One iteration of for k, v := range r.s: merge into, or adopt as, totals[k].
MergeKey ==
    /\ Alive /\ cpc = "merge" /\ todo # {}
    /\ \E k \in todo :
         /\ totals' = IF k \in DOMAIN totals
                      THEN [totals EXCEPT ![k] = Merge(@, cur.s[k])]
                      ELSE totals @@ (k :> cur.s[k])
         /\ todo' = todo \ {k}
    /\ UNCHANGED <<rpc, res, wg, closed, cpc, cur, curRun, totalKeyCount,
                   merged, mpc, logged, rendered, rkey, crashed>>
    /\ UNCHANGED runVars

\* The inner loop is over: back to the receive.
MergeDone ==
    /\ Alive /\ cpc = "merge" /\ todo = {}
    /\ merged' = merged \cup {curRun}
    /\ cpc' = "recv"
    /\ UNCHANGED <<rpc, res, wg, closed, cur, curRun, todo, totals, totalKeyCount,
                   mpc, logged, rendered, rkey, crashed>>
    /\ UNCHANGED runVars

\* The range over the closed channel ends.
CollectorExit ==
    /\ Alive /\ cpc = "recv" /\ closed
    /\ cpc' = "exit"
    /\ UNCHANGED <<rpc, res, wg, closed, cur, curRun, todo, totals, totalKeyCount,
                   merged, mpc, logged, rendered, rkey, crashed>>
    /\ UNCHANGED runVars

\* wg.Wait()
Wait ==
    /\ Alive /\ mpc = "wait" /\ wg = 0
    /\ mpc' = "close"
    /\ UNCHANGED <<rpc, res, wg, closed, cpc, cur, curRun, todo, totals, totalKeyCount,
                   merged, logged, rendered, rkey, crashed>>
    /\ UNCHANGED runVars

\* close(results)
Close ==
    /\ Alive /\ mpc = "close"
    /\ closed' = TRUE
    /\ mpc' = "log"
    /\ UNCHANGED <<rpc, res, wg, cpc, cur, curRun, todo, totals, totalKeyCount,
                   merged, logged, rendered, rkey, crashed>>
    /\ UNCHANGED runVars

\* log.Printf("total key count: %d\n", totalKeyCount)
Log ==
    /\ Alive /\ mpc = "log"
    /\ logged' = totalKeyCount
    /\ mpc' = "render"
    /\ UNCHANGED <<rpc, res, wg, closed, cpc, cur, curRun, todo, totals, totalKeyCount,
                   merged, rendered, rkey, crashed>>
    /\ UNCHANGED runVars

\* The collector's next step writes the map totals (totals[k] = ...).
MapWrite == cpc = "merge" /\ todo # {}

\* for k, v := range totals { v.Name = k: the next iteration starts and
\* writes the name into the Results that totals[k] points at.
\* The runtime can end the process (fatal error: concurrent map iteration
\* and map write) when the range meets a write of the collector.
SetName ==
    /\ Alive /\ mpc = "render"
    /\ \E k \in DOMAIN totals \ DOMAIN rendered :
         \/ /\ totals' = [totals EXCEPT ![k].Name = k]
            /\ rkey' = k
            /\ mpc' = "create"
            /\ crashed' = crashed
         \/ /\ MapWrite
            /\ crashed' = TRUE
            /\ UNCHANGED <<totals, rkey, mpc>>
    /\ UNCHANGED <<rpc, res, wg, closed, cpc, cur, curRun, todo, totalKeyCount,
                   merged, logged, rendered>>
    /\ UNCHANGED runVars

\* os.Create(...) and the log line; a failure panics.
Create ==
    /\ Alive /\ mpc = "create"
    /\ \E ok \in BOOLEAN :
         /\ mpc' = IF ok THEN "html" ELSE mpc
         /\ crashed' = ~ok
    /\ UNCHANGED <<rpc, res, wg, closed, cpc, cur, curRun, todo, totals, totalKeyCount,
                   merged, logged, rendered, rkey>>
    /\ UNCHANGED runVars

\* What a reader gets of a Results that a Merge is changing from `a` to `b`
\* with nothing ordering the two: each field as it was or as it will be.
Torn(a, b) ==
    {[Name |-> a.Name, cnt |-> x.cnt, len |-> y.len, elem |-> z.elem] :
        x \in {a, b}, y \in {a, b}, z \in {a, b}}

\* What RenderHTML can read of the Results of bucket k: the Results as it
\* is, or a torn one when the collector is about to merge into it.
Reads(k) ==
    IF cpc = "merge" /\ k \in todo
    THEN Torn(totals[k], Merge(totals[k], cur.s[k]))
    ELSE {totals[k]}

\* reckon.RenderHTML(v, f) reads the Results; a failure panics.
RenderHTML ==
    /\ Alive /\ mpc = "html"
    /\ \E ok \in BOOLEAN, v \in Reads(rkey) :
         IF ok
         THEN /\ rendered' = rendered @@ (rkey :> v)
              /\ rkey' = ""
              /\ mpc' = "render"
              /\ crashed' = crashed
         ELSE /\ crashed' = TRUE
              /\ UNCHANGED <<rendered, rkey, mpc>>
    /\ UNCHANGED <<rpc, res, wg, closed, cpc, cur, curRun, todo, totals, totalKeyCount,
                   merged, logged>>
    /\ UNCHANGED runVars

\* The range over totals is over: main returns, and the process ends; or the
\* range's last step meets a write of the collector and the runtime ends the
\* process with a fatal error.
Exit ==
    /\ Alive /\ mpc = "render"
    /\ DOMAIN totals \subseteq DOMAIN rendered
    /\ \/ /\ mpc' = "exit"
          /\ crashed' = crashed
       \/ /\ MapWrite
          /\ crashed' = TRUE
          /\ mpc' = mpc
    /\ UNCHANGED <<rpc, res, wg, closed, cpc, cur, curRun, todo, totals, totalKeyCount,
                   merged, logged, rendered, rkey>>
    /\ UNCHANGED runVars

MainNext ==
    \/ \E r \in Runs : RunCall(r)
    \/ \E r \in Runs : Receive(r)
    \/ \E r \in Runs : Done(r)
    \/ \E r \in Runs : Fatal(r)
    \/ Check
    \/ MergeKey
    \/ MergeDone
    \/ CollectorExit
    \/ Wait
    \/ Close
    \/ Log
    \/ SetName
    \/ Create
    \/ RenderHTML
    \/ Exit

\* ------------------------------------------------------------ specifications
\* One Run call, the example idle.
Init == RunInit /\ MainStart

Next == RunNext

Spec == Init /\ [][Next]_vars

\* The example, with Run as the call RunCall makes.
MainInit ==
    /\ RunStart /\ numKeys = 0 /\ agg = "AnyKey" /\ store = SmallStore
    /\ MainStart

SpecMain == MainInit /\ [][MainNext]_vars

\* The scheduler runs every goroutine that can run, and every Run call ends.
SpecMainFair ==
    /\ SpecMain
    /\ \A r \in Runs : WF_vars(RunCall(r)) /\ WF_vars(Receive(r)) /\ WF_vars(Done(r))
    /\ \A r \in Runs : WF_vars(Fatal(r))
    /\ WF_vars(Check) /\ WF_vars(MergeKey) /\ WF_vars(MergeDone)
    /\ WF_vars(CollectorExit)
    /\ WF_vars(Wait) /\ WF_vars(Close) /\ WF_vars(Log)
    /\ WF_vars(SetName) /\ WF_vars(Create) /\ WF_vars(RenderHTML) /\ WF_vars(Exit)

\* ------------------------------------------------- what each goroutine touches
\* The maps and Results instances the next step of a goroutine reads or
\* writes: "totals", the Results that totals[k] points at, and the map (with
\* its Results) that run r built.
RunnerAccess(r) == IF rpc[r] = "run" THEN {<<"map", r>>} ELSE {}

CollectorAccess ==
    IF cpc = "merge"
    THEN {<<"map", curRun>>} \cup
         (IF todo # {}
          THEN {<<"totals">>} \cup {<<"Results", k>> : k \in todo \cap DOMAIN totals}
          ELSE {})
    ELSE {}

MainAccess ==
    CASE mpc = "render" ->
           {<<"totals">>} \cup {<<"Results", k>> : k \in DOMAIN totals \ DOMAIN rendered}
      [] mpc = "html" -> {<<"Results", rkey>>}
      [] OTHER -> {}

\* =========================================================================
\* Properties of Run
\* =========================================================================
Range(f) == {f[x] : x \in DOMAIN f}

RECURSIVE SumOver(_, _)
SumOver(f, S) ==
    IF S = {} THEN 0
    ELSE LET x == CHOOSE y \in S : TRUE IN f[x] + SumOver(f, S \ {x})

\* The number of keys a Results counts, over all value types.
Total(r) == SumOver(r.cnt, ValueTypes)

Connected == conn # "none"

\* C1 (as stated): the interval is max(NumKeys/100, 100), and a run of 250
\* keys whose store calls all succeed prints progress at i=100 and i=200 only.
C1_AsStated ==
    /\ (Connected /\ numKeys >= 1) =>
          interval = (IF numKeys \div 100 > 100 THEN numKeys \div 100 ELSE 100)
    /\ (numKeys = 250 /\ pc = "returned" /\ err = nil) => progress = {100, 200}

\* C1 (amended): the interval is NumKeys/100, or 100 when that quotient is 0,
\* and stays what it was set to; a run whose store calls all succeed prints
\* progress at exactly the positive multiples of the interval below NumKeys:
\* for NumKeys = 250 at every even i from 2 to 248.
C1_Cadence ==
    /\ (Connected /\ numKeys > -100) =>
          interval = (IF numKeys < 100 THEN 100 ELSE numKeys \div 100)
    /\ (pc = "returned" /\ err = nil /\ Connected /\ numKeys >= 0) =>
          progress = {j \in 1..(numKeys - 1) : j % interval = 0}
    /\ (numKeys = 250 /\ pc = "returned" /\ err = nil) =>
          progress = {2 * k : k \in 1..124}

C1_Witness ==
    /\ numKeys = LongKeys /\ pc = "returned" /\ err = nil
    /\ i = numKeys /\ 2 \in progress /\ 100 \in progress

\* C2: when the reported type is none of the five, the next step of Run is
\* its return with a non-nil error: no sampler is called, no round trip to
\* the store is made, the map is the one the earlier iterations built, and
\* nothing happens after the return.
C2_UnknownTypeAborts ==
    [][ /\ (pc = "switch" /\ vt \notin ValueTypes) =>
              /\ pc' = "returned" /\ err' # nil
              /\ stats' = stats /\ ntrips' = ntrips /\ last' = NoCall
        /\ pc # "returned" ]_vars

C2_Witness ==
    /\ pc = "returned" /\ vt = "none" /\ err # nil
    /\ i = 1 /\ DOMAIN stats # {} /\ ntrips = 5

\* C3: a run over N >= 1 keys that returns nil under the AnyKey aggregator
\* returns one bucket, whose counters add up to N.
C3_EveryKeyCounted ==
    (pc = "returned" /\ err = nil /\ numKeys >= 1 /\ agg = "AnyKey") =>
        /\ DOMAIN stats = {"any-key"}
        /\ Total(stats["any-key"]) = numKeys

C3_Witness ==
    /\ pc = "returned" /\ err = nil /\ numKeys = 2 /\ agg = "AnyKey"
    /\ stats["any-key"].cnt[TypeSet] = 1
    /\ stats["any-key"].cnt[TypeHash] = 1

\* C4 (as stated): a list, set or hash key for which the store reports
\* cardinality 0 and no member is sampled, with at least one bucket, without
\* panic and without error, and is counted once in each bucket.
C4_AsStated ==
    (last.empty /\ last.vt \in {TypeList, TypeSet, TypeHash}
       /\ Groups(agg, key, last.vt) # << >>) =>
        /\ last.out = "ok"
        /\ \A g \in Range(Groups(agg, key, last.vt)) :
              g \in DOMAIN stats /\ stats[g].cnt[last.vt] >= 1

\* C5 (as stated): a bucket name that Groups returns more than once for a
\* key has its counter for the key's type raised by exactly 1.
C5_AsStated ==
    [][ (pc = "switch" /\ pc' = "loop") =>
            \A g \in Range(Groups(agg, key, vt)) :
                stats'[g].cnt[vt] =
                    (IF g \in DOMAIN stats THEN stats[g].cnt[vt] ELSE 0) + 1 ]_vars

\* C6 (as stated): when Run has returned after connecting, the connection
\* is closed.
C6_AsStated == (pc = "returned" /\ Connected) => conn = "closed"

\* C7 (as stated): once a store command has failed, no further round trip is
\* made, Run has returned, and its error is the error of that command.
C7_AsStated ==
    failTrip # 0 => (pc = "returned" /\ ntrips = failTrip /\ err = failErr)

\* C8: when the connection cannot be established, Run returns a non-nil
\* error, has issued no store command, and its map has no bucket.
C8_DialFailure ==
    (pc = "returned" /\ ~Connected) =>
        (err # nil /\ ntrips = 0 /\ DOMAIN stats = {})

C8_Witness == pc = "returned" /\ ~Connected /\ err = ErrDial

\* C9: the step that records a key leaves every bucket that Groups did not
\* return for the key as it was, and adds no bucket but those returned.
C9_BucketIsolation ==
    [][ (pc = "switch" /\ vt \in ValueTypes) =>
            /\ \A b \in DOMAIN stats \ Range(Groups(agg, key, vt)) :
                  b \in DOMAIN stats' /\ stats'[b] = stats[b]
            /\ DOMAIN stats' \subseteq DOMAIN stats \cup Range(Groups(agg, key, vt)) ]_vars

C9_Witness ==
    /\ pc = "loop" /\ i = 2 /\ agg = "ByType"
    /\ DOMAIN stats = {TypeString, TypeHash}

\* C14: a Run with NumKeys <= 0 requests no random key, makes no round trip,
\* calls no sampler, prints no progress line and creates no bucket; it
\* returns the Dial error, or a nil error with an empty map.
C14_NoKeysNoWork ==
    numKeys <= 0 =>
        /\ nrandom = 0 /\ ntrips = 0 /\ trips = << >>
        /\ last = NoCall
        /\ progress = {}
        /\ DOMAIN stats = {}
        /\ pc = "returned" => err \in {nil, ErrDial}
        /\ pc \in {"dial", "loop", "returned"}

C14_Witness ==
    numKeys <= 0 /\ pc = "returned" /\ err = nil /\ Connected

\* C15: every HGET of sampleHash asks for the first field name of the HKEYS
\* reply, and every observation of the hash records that field with the
\* value the HGET answered: what is recorded is a function of the replies.
C15_FirstField ==
    (last.vt = TypeHash /\ last.asked # << >>) =>
        /\ \A j \in DOMAIN last.asked : last.asked[j] = last.hkeys[1]
        /\ \A j \in DOMAIN last.obs :
              /\ last.obs[j].field = last.hkeys[1]
              /\ last.got[j] = BulkReply(last.obs[j].val)

C15_Witness ==
    /\ last.vt = TypeHash /\ last.out = "ok"
    /\ Len(last.hkeys) = 2 /\ Len(last.obs) = 2

\* C16: when a sampler has returned nil for a key of type T, Groups was
\* invoked with (key, T), each name it returned got an observation of kind
\* T, in the bucket of that name, and no observation of another kind was made.
C16_MatchingObservation ==
    (last.out = "ok") =>
        /\ last.invoked
        /\ last.vt = vt
        /\ last.groups = Groups(agg, key, vt)
        /\ Len(last.calls) = Len(last.groups)
        /\ \A j \in DOMAIN last.calls : last.calls[j] = <<last.groups[j], vt>>
        /\ \A g \in Range(last.groups) :
              g \in DOMAIN stats /\ stats[g].cnt[vt] >= 1

C16_Witness ==
    /\ last.out = "ok" /\ last.vt = TypeSortedSet /\ agg = "Two"
    /\ Len(last.calls) = 2

\* C17 (as stated): a sampled hash key costs one pipelined batch (HLEN,
\* HKEYS) and then one HGET, whatever number of groups the Aggregator returns.
C17_AsStated ==
    (last.vt = TypeHash /\ last.out = "ok") =>
        trips = << <<"RANDOMKEY">>, <<"TYPE">>, <<"HLEN", "HKEYS">>, <<"HGET">> >>

\* C18 (as stated): a sampler that returns an error leaves the map as it was
\* before the call.
C18_AsStated ==
    [][ (pc = "switch" /\ vt \in ValueTypes /\ pc' = "returned") =>
            stats' = stats ]_vars

\* The steps Run has left at most: two per iteration to come, and its place
\* in the current one.
Variant ==
    2 * ((IF numKeys > 0 THEN numKeys ELSE 0) - i) +
    (CASE pc = "dial" -> 3 [] pc = "loop" -> 2 [] pc = "switch" -> 1 [] OTHER -> 0)

\* C19: once connected, Run requests at most NumKeys random keys; when it
\* has returned nil it has requested exactly NumKeys (none for NumKeys < 0)
\* and all its iterations are over.  Run comes to an end: as long as it has
\* neither returned nor panicked it can take a step (every store call
\* returns), and every step lowers Variant, which is never negative.
C19_Terminates ==
    /\ [](Connected =>
            /\ nrandom <= (IF numKeys > 0 THEN numKeys ELSE 0)
            /\ (pc = "returned" /\ err = nil) =>
                  /\ nrandom = (IF numKeys > 0 THEN numKeys ELSE 0)
                  /\ i >= numKeys)
    /\ [](Variant >= 0)
    /\ [](pc \notin {"returned", "panic"} => ENABLED Next)
    /\ [][Variant' < Variant]_vars

C19_Witness ==
    /\ pc = "returned" /\ err = nil /\ Connected
    /\ numKeys = MaxKeys /\ nrandom = MaxKeys /\ agg = "None"

\* =========================================================================
\* Properties of the multi-instance example
\* =========================================================================
\* C10 (as stated): when main starts rendering, the map of every run that
\* finished has been received by the collector and merged completely into
\* totals.
C10_AsStated ==
    mpc = "render" =>
        \A r \in Runs : (rpc[r] = "exit" /\ res[r].err = nil) => r \in merged

\* C11 (as stated): no map and no Results instance is about to be accessed
\* by two goroutines in the same state, with nothing ordering the two accesses.
C11_AsStated ==
    Alive =>
        /\ CollectorAccess \cap MainAccess = {}
        /\ \A r \in Runs :
              /\ RunnerAccess(r) \cap CollectorAccess = {}
              /\ RunnerAccess(r) \cap MainAccess = {}
              /\ \A q \in Runs \ {r} : RunnerAccess(r) \cap RunnerAccess(q) = {}

SomeFailed == \E r \in Runs : rpc[r] \in {"send", "sent", "exit"} /\ res[r].err # nil

SomePanicked == \E r \in Runs : rpc[r] \in {"panicking", "dying"}

\* C12 (as stated): in an execution where a run returned an error, no bucket
\* of totals is rendered.
C12_AsStated == SomeFailed => DOMAIN rendered = {}

\* The map after a run has made on it the observations that built `s`.
Replay(m, s) ==
    LET one == stringLoop(<<"any-key">>, "k1", "v", Outcome(m, nil, << >>, << >>)).stats
    IN  IF s = Sampled1 THEN one
        ELSE IF s = Sampled2
        THEN listLoop(<<"any-key">>, "k2", 1, <<"a">>, Outcome(one, nil, << >>, << >>)).stats
        ELSE m

\* The map of one run over the observations of the runs 1..n.
RECURSIVE OneRun(_)
OneRun(n) == IF n = 0 THEN << >> ELSE Replay(OneRun(n - 1), res[n].s)

\* The counters and size statistics of a Results.
Stats(r) == [cnt |-> r.cnt, len |-> r.len, elem |-> r.elem]

\* C13: when the maps of all the runs have been merged, in whatever order
\* they arrived, totals has the buckets, and each bucket the counters and
\* size statistics, of one run over all the observations.
C13_OrderIndependent ==
    (merged = Runs) =>
        /\ DOMAIN totals = DOMAIN OneRun(NumRuns)
        /\ \A k \in DOMAIN totals : Stats(totals[k]) = Stats(OneRun(NumRuns)[k])

C13_Witness ==
    /\ merged = Runs /\ curRun = 1
    /\ res[1].s = Sampled2 /\ res[2].s = Sampled1 /\ res[3].s = Sampled2

\* C20: the channel is closed only by main's one close, when no send is
\* pending or still to come; and unless a Run call returns an error or
\* panics, every send is received and main reaches the rendering step.
C20_NoDeadlock ==
    /\ [](closed => \A r \in Runs : rpc[r] \in {"sent", "exit", "dying"})
    /\ [](closed <=> mpc \notin {"wait", "close"})
    /\ [][mpc = "close" => mpc' \in {"close", "log"}]_vars
    /\ \A r \in Runs :
          (rpc[r] = "send") ~> (rpc[r] \in {"sent", "exit"} \/ SomeFailed \/ SomePanicked)
    /\ <>(mpc = "render" \/ SomeFailed \/ SomePanicked)

C20_Witness ==
    /\ mpc = "render" /\ closed /\ wg = 0
    /\ \A r \in Runs : rpc[r] = "exit" /\ res[r].err = nil

====
